---------------------------- MODULE Spec2Model ----------------------------
(* A model of sophos-host-group-export.py: the selection parser, the      *)
(* group/host extractor and the main sequence with its exits.             *)
(* Strings are sequences of one-character strings, so that strip(),       *)
(* lower(), split(), int() and the substring test are computed.           *)
EXTENDS Integers, Sequences, FiniteSets, TLC

VARIABLES
    pc,           \* position in the function or in the main sequence
    tree,         \* the parsed source document (preorder element sequence)
    tags,         \* the schema in use: "ip", "fqdn", "none" (not detected)
    all_groups,   \* the catalog returned by list_groups
    sel,          \* the selection text
    group_names,  \* the matched names, as the list parse_group_selection returns
    invalid,      \* the tokens parse_group_selection could not resolve
    new_tree,     \* the document built by process_tree
    archive,      \* what the input archive turned out to be
    export_name,  \* the sanitized export name
    outFile,      \* the file <export-name>.tar: absent, old, empty, partial, complete
    existed,      \* the result of output_path.exists(): "unknown", "yes", "no"
    answer,       \* the answer to the overwrite prompt, <<"?">> before it is given
    exitStatus,   \* <<>> while the run lasts, then <<status>>
    cause,        \* how the run ended: "", a fatal kind, "interrupt", ...
    logged,       \* logger.error was called by the last handler
    steps         \* the steps of the main sequence executed so far

mainVars == <<archive, export_name, outFile, existed, answer, exitStatus, cause,
              logged, steps>>

vars == <<pc, tree, tags, all_groups, sel, group_names, invalid, new_tree,
          archive, export_name, outFile, existed, answer, exitStatus, cause,
          logged, steps>>

-----------------------------------------------------------------------------
(* Bounds *)

\* longest selection text drawn as an input of parse_group_selection
MaxSelLen == 4

\* most host and group elements in a document drawn as an input of process_tree
MaxItems == 3

\* longest selection text the operator enters in a run of the main sequence
MaxTypedLen == 3

-----------------------------------------------------------------------------
(* Strings *)

Range(s) == {s[i] : i \in DOMAIN s}

SetMin(S) == CHOOSE x \in S : \A y \in S : x <= y

SetMax(S) == CHOOSE x \in S : \A y \in S : x >= y

DigitChars == <<"0", "1", "2", "3", "4", "5", "6", "7", "8", "9">>

Digits == Range(DigitChars)

DigitVal(c) == (CHOOSE i \in DOMAIN DigitChars : DigitChars[i] = c) - 1

\* the characters of the model, in code-point order
CharOrder == <<"\n", " ", "+", ",", "-", "0", "1", "2", "3", "4", "5", "6", "7",
               "8", "9", "A", "B", "H", "K", "_", "a", "b", "h", "k">>

Ord(c) == CHOOSE i \in DOMAIN CharOrder : CharOrder[i] = c

IsSpace(c) == c \in {" ", "\n"}

\* str.lower() on one character
LowerChar(c) ==
    CASE c = "A" -> "a"
      [] c = "J" -> "j"
      [] c = "Y" -> "y"
      [] c = "B" -> "b"
      [] c = "H" -> "h"
      [] c = "K" -> "k"
      [] OTHER -> c

\* str.lower()
Lower(s) == [i \in DOMAIN s |-> LowerChar(s[i])]

\* str.strip()
Strip(s) ==
    LET keep == {i \in DOMAIN s : ~IsSpace(s[i])}
    IN  IF keep = {} THEN <<>> ELSE SubSeq(s, SetMin(keep), SetMax(keep))

\* position of the first occurrence of character c in s, 0 when absent
IndexOf(s, c) ==
    LET at == {i \in DOMAIN s : s[i] = c}
    IN  IF at = {} THEN 0 ELSE SetMin(at)

\* str.split(c)
RECURSIVE Split(_, _)
Split(s, c) ==
    LET i == IndexOf(s, c)
    IN  IF i = 0 THEN <<s>>
        ELSE <<SubSeq(s, 1, i - 1)>> \o Split(SubSeq(s, i + 1, Len(s)), c)

\* the test  sub in s
Contains(sub, s) ==
    \E i \in 0..(Len(s) - Len(sub)) : SubSeq(s, i + 1, i + Len(sub)) = sub

\* str.isdigit()
IsDigit(s) == s # <<>> /\ \A i \in DOMAIN s : s[i] \in Digits

RECURSIVE DecValue(_)
DecValue(s) ==
    IF s = <<>> THEN 0
    ELSE 10 * DecValue(SubSeq(s, 1, Len(s) - 1)) + DigitVal(s[Len(s)])

\* int(s): surrounding whitespace and one sign are accepted; anything else
\* raises ValueError (ok = FALSE).  Digit separators ("1_0") and digits
\* outside 0-9 are not among the characters of the model.
ParseInt(s) ==
    LET t      == Strip(s)
        signed == t # <<>> /\ t[1] \in {"-", "+"}
        body   == IF signed THEN Tail(t) ELSE t
    IN  IF IsDigit(body)
        THEN [ok |-> TRUE,
              val |-> IF signed /\ t[1] = "-" THEN 0 - DecValue(body) ELSE DecValue(body)]
        ELSE [ok |-> FALSE, val |-> 0]

\* a < b in the order sorted() uses for str
RECURSIVE StrLess(_, _)
StrLess(a, b) ==
    IF a = <<>> THEN b # <<>>
    ELSE IF b = <<>> THEN FALSE
    ELSE IF a[1] = b[1] THEN StrLess(Tail(a), Tail(b))
    ELSE Ord(a[1]) < Ord(b[1])

\* sorted(S) for a set of strings
RECURSIVE Sorted(_)
Sorted(S) ==
    IF S = {} THEN <<>>
    ELSE LET m == CHOOSE x \in S : \A y \in S \ {x} : StrLess(x, y)
         IN  <<m>> \o Sorted(S \ {m})

\* the orders list(a_set) can produce
ListsOf(S) ==
    {q \in [1..Cardinality(S) -> S] : \A i, j \in DOMAIN q : q[i] = q[j] => i = j}

-----------------------------------------------------------------------------
(* Documents: an element tree as the sequence of its elements in document  *)
(* order, each with its tag, its depth (the root has depth 0) and its text *)
(* ('' stands for both an empty and a missing text; tails and attributes   *)
(* take no part in the extraction and are left out).                       *)

Elem(tag, depth, text) == [tag |-> tag, depth |-> depth, text |-> text]

TAG_SETS ==
    [ip   |-> [group |-> "IPHostGroup", list |-> "IPHostList",
               ref |-> "IPHost", host |-> "IPHost"],
     fqdn |-> [group |-> "FQDNHostGroup", list |-> "FQDNHostList",
               ref |-> "FQDNHost", host |-> "FQDNHost"]]

\* index of the last element of the subtree rooted at element i
SubtreeEnd(t, i) ==
    LET later == {k \in (i + 1)..Len(t) : t[k].depth <= t[i].depth}
    IN  IF later = {} THEN Len(t) ELSE SetMin(later) - 1

\* the direct children of element i
Children(t, i) == {k \in (i + 1)..SubtreeEnd(t, i) : t[k].depth = t[i].depth + 1}

\* the indices of a set, ascending
RECURSIVE Ascending(_)
Ascending(S) ==
    IF S = {} THEN <<>> ELSE <<SetMin(S)>> \o Ascending(S \ {SetMin(S)})

\* elem.find(tag): the first direct child with that tag, 0 for None
Find(t, i, tag) ==
    LET hit == {k \in Children(t, i) : t[k].tag = tag}
    IN  IF hit = {} THEN 0 ELSE SetMin(hit)

\* elem.findtext(tag, '')
FindText(t, i, tag) == IF Find(t, i, tag) = 0 THEN <<>> ELSE t[Find(t, i, tag)].text

\* root.findall('.//tag'): the descendants of the root with that tag
FindAll(t, tag) == Ascending({k \in 2..Len(t) : t[k].tag = tag})

\* root.iter(tag): the root itself and its descendants with that tag
Iter(t, tag) == Ascending({k \in 1..Len(t) : t[k].tag = tag})

\* copy.deepcopy(elem) appended to the new root: the subtree, one level below it
DeepCopy(t, i) ==
    [k \in 1..(SubtreeEnd(t, i) - i + 1) |->
        [t[i + k - 1] EXCEPT !.depth = t[i + k - 1].depth - t[i].depth + 1]]

RECURSIVE Spaces(_)
Spaces(n) == IF n = 0 THEN <<>> ELSE <<" ">> \o Spaces(n - 1)

\* ET.indent(root, space="  "): an element with children whose text is empty
\* or blank gets the line break and indentation of its first child
Indent(t) ==
    [k \in DOMAIN t |->
        IF Children(t, k) # {} /\ Strip(t[k].text) = <<>>
        THEN [t[k] EXCEPT !.text = <<"\n">> \o Spaces(2 * (t[k].depth + 1))]
        ELSE t[k]]

-----------------------------------------------------------------------------
(* detect_object_type and list_groups *)

\* the first schema whose group tag occurs below the root, "none" for sys.exit
detect_object_type(t) ==
    IF FindAll(t, TAG_SETS.ip.group) # <<>> THEN "ip"
    ELSE IF FindAll(t, TAG_SETS.fqdn.group) # <<>> THEN "fqdn"
    ELSE "none"

\* list_groups without the strip() of the names
list_groups_unstripped(t, tagset) ==
    LET grps == FindAll(t, tagset.group)
        names == {FindText(t, grps[i], "Name") : i \in DOMAIN grps}
    IN  Sorted(names \ {<<>>})

\* the stripped, non-empty names of the group elements, unique and sorted
list_groups(t, tagset) ==
    LET grps == FindAll(t, tagset.group)
        names == {Strip(FindText(t, grps[i], "Name")) : i \in DOMAIN grps}
    IN  Sorted(names \ {<<>>})

-----------------------------------------------------------------------------
(* process_tree *)

\* GroupsToExport keeping one element per name
GroupsToExportOncePerName(t, names, tagset) ==
    SelectSeq(FindAll(t, tagset.group),
              LAMBDA g : /\ Strip(FindText(t, g, "Name")) \in Range(names)
                         /\ \A e \in 2..(g - 1) :
                               t[e].tag = tagset.group =>
                                  Strip(FindText(t, e, "Name")) # Strip(FindText(t, g, "Name")))

\* the first loop's test: the group elements whose stripped Name is selected
GroupsToExport(t, names, tagset) ==
    SelectSeq(FindAll(t, tagset.group),
              LAMBDA g : Strip(FindText(t, g, "Name")) \in Range(names))

\* the list tags tried in order
ListTags(tagset) == <<tagset.list, "HostList", "IPHostList", "FQDNHostList">>

\* the first list container found in group g, 0 when there is none
ActiveList(t, g, tagset) ==
    LET found == {n \in DOMAIN ListTags(tagset) : Find(t, g, ListTags(tagset)[n]) # 0}
    IN  IF found = {} THEN 0 ELSE Find(t, g, ListTags(tagset)[SetMin(found)])

\* the stripped non-empty texts of the children of group g's list container
GroupRefs(t, g, tagset) ==
    LET lst == ActiveList(t, g, tagset)
    IN  IF lst = 0 THEN {}
        ELSE {Strip(t[r].text) : r \in Children(t, lst)} \ {<<>>}

\* host_refs after the first loop
HostRefs(t, names, tagset) ==
    LET grps == GroupsToExport(t, names, tagset)
    IN  UNION {GroupRefs(t, grps[i], tagset) : i \in DOMAIN grps}

\* HostIsCopied without the test  name in host_refs
HostIsCopiedUnreferenced(t, h, host_refs, seen_hosts) ==
    /\ Find(t, h, "Name") # 0
    /\ Strip(FindText(t, h, "Name")) \notin seen_hosts

\* HostIsCopied without the test  name not in seen_hosts
HostIsCopiedAgain(t, h, host_refs, seen_hosts) ==
    /\ Find(t, h, "Name") # 0
    /\ Strip(FindText(t, h, "Name")) \in host_refs

\* the iteration's test for copying host h, given the names already seen
HostIsCopied(t, h, host_refs, seen_hosts) ==
    /\ Find(t, h, "Name") # 0
    /\ Strip(FindText(t, h, "Name")) \in host_refs
    /\ Strip(FindText(t, h, "Name")) \notin seen_hosts

\* the second loop: the hosts appended to new_root, in order
RECURSIVE HostLoop(_, _, _, _)
HostLoop(t, hosts, host_refs, seen_hosts) ==
    IF hosts = <<>> THEN <<>>
    ELSE IF HostIsCopied(t, Head(hosts), host_refs, seen_hosts)
         THEN <<Head(hosts)>> \o
              HostLoop(t, Tail(hosts), host_refs,
                       seen_hosts \cup {Strip(FindText(t, Head(hosts), "Name"))})
         ELSE HostLoop(t, Tail(hosts), host_refs, seen_hosts)

\* the source elements appended to new_root, in the order they are appended
AppendedElements(t, names, tagset) ==
    HostLoop(t, Iter(t, tagset.host), HostRefs(t, names, tagset), {})
        \o GroupsToExport(t, names, tagset)

RECURSIVE CopyAll(_, _)
CopyAll(t, elems) ==
    IF elems = <<>> THEN <<>> ELSE DeepCopy(t, Head(elems)) \o CopyAll(t, Tail(elems))

\* the function; hasIndent says whether the runtime provides ET.indent
process_tree(t, names, tagset, hasIndent) ==
    LET new_root == <<Elem(t[1].tag, 0, <<>>)>>
        built == new_root \o CopyAll(t, AppendedElements(t, names, tagset))
    IN  IF hasIndent THEN Indent(built) ELSE built

-----------------------------------------------------------------------------
(* Inputs of process_tree: a root, then up to MaxItems host and group      *)
(* elements, each a child of the root or nested as the last child of the   *)
(* element before it.                                                      *)

HostElem(tag, name) == <<Elem(tag, 1, <<>>), Elem("Name", 2, name)>>

RECURSIVE RefElems(_, _)
RefElems(tag, refs) ==
    IF refs = <<>> THEN <<>> ELSE <<Elem(tag, 3, Head(refs))>> \o RefElems(tag, Tail(refs))

ListElem(tag, reftag, refs) == <<Elem(tag, 2, <<>>)>> \o RefElems(reftag, refs)

GroupElem(tag, name, lists) == <<Elem(tag, 1, <<>>), Elem("Name", 2, name)>> \o lists

HostH == HostElem("IPHost", <<"h">>)

HostHSpaced == HostElem("IPHost", <<" ", "h">>)

HostK == HostElem("IPHost", <<"k">>)

FqdnHostH == HostElem("FQDNHost", <<"h">>)

GroupA == GroupElem("IPHostGroup", <<"A">>, ListElem("IPHostList", "IPHost", <<<<"h">>>>))

GroupASpaced ==
    GroupElem("IPHostGroup", <<"A", " ">>,
              ListElem("HostList", "IPHost", <<<<"k">>, <<" ", "h", " ">>, <<" ">>>>))

GroupB ==
    GroupElem("IPHostGroup", <<"B">>,
              ListElem("IPHostList", "IPHost", <<<<"k">>>>)
                  \o ListElem("HostList", "IPHost", <<<<"h">>>>))

FqdnGroupA ==
    GroupElem("FQDNHostGroup", <<"A">>,
              ListElem("IPHostList", "FQDNHost", <<<<"k">>>>)
                  \o ListElem("FQDNHostList", "FQDNHost", <<<<"h">>>>))

\* a group whose Name is blank
GroupBlank == GroupElem("IPHostGroup", <<" ">>, ListElem("IPHostList", "IPHost", <<<<"h">>>>))

ItemPool ==
    {HostH, HostHSpaced, HostK, FqdnHostH, GroupA, GroupASpaced, GroupB, FqdnGroupA}

\* item placed with its root at depth d
Placed(item, d) == [k \in DOMAIN item |-> [item[k] EXCEPT !.depth = item[k].depth + d - 1]]

RootOnly == <<Elem("Response", 0, <<>>)>>

\* the elements after the root: item k is a child of the root, or, when
\* nested[k], the last child of item k-1 (which lies at depth lastDepth)
RECURSIVE BuildDoc(_, _, _, _)
BuildDoc(items, nested, k, lastDepth) ==
    IF k > Len(items) THEN <<>>
    ELSE LET d == IF nested[k] THEN lastDepth + 1 ELSE 1
         IN  Placed(items[k], d) \o BuildDoc(items, nested, k + 1, d)

-----------------------------------------------------------------------------
(* parse_group_selection *)

\* the  parts  list: split on commas, strip, drop the empty tokens
SelectionParts(selection) ==
    LET raw == Split(selection, ",")
        stripped == [i \in DOMAIN raw |-> Strip(raw[i])]
    IN  SelectSeq(stripped, LAMBDA p : p # <<>>)

\* ResolveRange with the bounds test written  start_idx < end_idx
ResolveRangeStrict(part, groups) ==
    LET i     == IndexOf(part, "-")
        start == ParseInt(SubSeq(part, 1, i - 1))
        end   == ParseInt(SubSeq(part, i + 1, Len(part)))
        start_idx == start.val - 1
        end_idx   == end.val - 1
    IN  IF start.ok /\ end.ok
           /\ 0 <= start_idx /\ start_idx < end_idx /\ end_idx < Len(groups)
        THEN [add |-> {groups[k + 1] : k \in start_idx..end_idx}, bad |-> FALSE]
        ELSE [add |-> {}, bad |-> TRUE]

\* the range branch: part.split('-', 1), int() of both halves, the bounds test
ResolveRange(part, groups) ==
    LET i     == IndexOf(part, "-")
        start == ParseInt(SubSeq(part, 1, i - 1))
        end   == ParseInt(SubSeq(part, i + 1, Len(part)))
        start_idx == start.val - 1
        end_idx   == end.val - 1
    IN  IF start.ok /\ end.ok
           /\ 0 <= start_idx /\ start_idx <= end_idx /\ end_idx < Len(groups)
        THEN [add |-> {groups[k + 1] : k \in start_idx..end_idx}, bad |-> FALSE]
        ELSE [add |-> {}, bad |-> TRUE]

\* the single index branch
ResolveIndex(part, groups) ==
    LET idx == DecValue(part) - 1
    IN  IF 0 <= idx /\ idx < Len(groups)
        THEN [add |-> {groups[idx + 1]}, bad |-> FALSE]
        ELSE [add |-> {}, bad |-> TRUE]

\* ResolveName taking the first of several substring matches
ResolveNameFirstMatch(part, groups) ==
    LET matches == SelectSeq(groups, LAMBDA g : Contains(Lower(part), Lower(g)))
    IN  IF Len(matches) >= 1 THEN [add |-> {matches[1]}, bad |-> FALSE]
        ELSE IF part \in Range(groups) THEN [add |-> {part}, bad |-> FALSE]
        ELSE [add |-> {}, bad |-> TRUE]

\* the name branch: unique case-insensitive substring match, else exact member
ResolveName(part, groups) ==
    LET matches == SelectSeq(groups, LAMBDA g : Contains(Lower(part), Lower(g)))
    IN  IF Len(matches) = 1 THEN [add |-> {matches[1]}, bad |-> FALSE]
        ELSE IF part \in Range(groups) THEN [add |-> {part}, bad |-> FALSE]
        ELSE [add |-> {}, bad |-> TRUE]

\* one iteration of the loop over parts
ResolvePart(part, groups) ==
    IF IndexOf(part, "-") # 0 /\ part[1] # "-" THEN ResolveRange(part, groups)
    ELSE IF IsDigit(part) THEN ResolveIndex(part, groups)
    ELSE ResolveName(part, groups)

\* the function: the requested set and the invalid list
parse_group_selection(selection, groups) ==
    IF Strip(selection) = <<>> THEN [requested |-> {}, invalid |-> <<>>]
    ELSE LET parts == SelectionParts(selection)
         IN  [requested |-> UNION {ResolvePart(parts[i], groups).add : i \in DOMAIN parts},
              invalid   |-> SelectSeq(parts, LAMBDA p : ResolvePart(p, groups).bad)]

-----------------------------------------------------------------------------
(* Inputs of the selection parser *)

SelChars == {"0", "1", "2", "-", "+", "a", "A", ",", " "}

RECURSIVE StringsUpTo(_, _)
StringsUpTo(chars, n) ==
    IF n = 0 THEN {<<>>}
    ELSE LET shorter == StringsUpTo(chars, n - 1)
         IN  shorter \cup {Append(s, c) : s \in {t \in shorter : Len(t) = n - 1}, c \in chars}

\* catalogs as list_groups returns them: sorted, unique, stripped, non-empty
SelCatalogs ==
    { Sorted(S) : S \in { {<<"a">>}, {<<"A", "a">>}, {<<"a">>, <<"a", "a">>},
                          {<<"A", "a">>, <<"a", "a">>},
                          {<<"a", "-", "a">>, <<"A">>},
                          {<<"1">>, <<"a">>, <<"a", "-", "a">>},
                          {<<"1", "-", "2">>, <<"2">>},
                          {<<"a">>, <<"a", "-", "-", "a">>},
                          {<<"A">>, <<"a">>, <<"a", " ", "a">>} } }

\* the main sequence is not running
MainIdle ==
    /\ archive = "unread"
    /\ export_name = <<>>
    /\ outFile = "absent"
    /\ existed = "unknown"
    /\ answer = <<"?">>
    /\ exitStatus = <<>>
    /\ cause = ""
    /\ logged = FALSE
    /\ steps = <<>>

InitSelection ==
    /\ MainIdle
    /\ pc = "call"
    /\ all_groups \in SelCatalogs
    /\ sel \in StringsUpTo(SelChars, MaxSelLen)
    /\ tree = <<>>
    /\ tags = "none"
    /\ group_names = <<>>
    /\ invalid = <<>>
    /\ new_tree = <<>>

\* the call  group_names, invalid = parse_group_selection(sel, all_groups)
ParseSelection ==
    /\ pc = "call"
    /\ LET r == parse_group_selection(sel, all_groups)
       IN  /\ group_names' \in ListsOf(r.requested)
           /\ invalid' = r.invalid
    /\ pc' = "return"
    /\ UNCHANGED <<tree, tags, all_groups, sel, new_tree>>
    /\ UNCHANGED mainVars

NextSelection == ParseSelection

SpecSelection == InitSelection /\ [][NextSelection]_vars

-----------------------------------------------------------------------------
(* Claims about parse_group_selection, stated on the returned values *)

\* the loop's test for the range branch
IsRangeToken(p) == IndexOf(p, "-") # 0 /\ p[1] # "-"

\* a '-' somewhere after the first character
HasLaterDash(p) == \E i \in 2..Len(p) : p[i] = "-"

FirstHalf(p) == SubSeq(p, 1, IndexOf(p, "-") - 1)

SecondHalf(p) == SubSeq(p, IndexOf(p, "-") + 1, Len(p))

\* both halves are integers with 1 <= start <= end <= len(catalog)
RangeIsValid(p) ==
    /\ ParseInt(FirstHalf(p)).ok
    /\ ParseInt(SecondHalf(p)).ok
    /\ 1 <= ParseInt(FirstHalf(p)).val
    /\ ParseInt(FirstHalf(p)).val <= ParseInt(SecondHalf(p)).val
    /\ ParseInt(SecondHalf(p)).val <= Len(all_groups)

\* the catalog names at the 1-based positions start..end
RangeNames(p) ==
    {all_groups[k] : k \in ParseInt(FirstHalf(p)).val..ParseInt(SecondHalf(p)).val}

\* what a token classified by isRange must have produced, as a range
RangeOutcome(isRange(_)) ==
    pc = "return" =>
        LET parts == SelectionParts(sel)
        IN  /\ \A i \in DOMAIN parts :
                 isRange(parts[i]) =>
                    IF RangeIsValid(parts[i])
                    THEN /\ RangeNames(parts[i]) \subseteq Range(group_names)
                         /\ parts[i] \notin Range(invalid)
                    ELSE parts[i] \in Range(invalid)
            /\ (Len(parts) = 1 /\ isRange(parts[1])) =>
                    IF RangeIsValid(parts[1])
                    THEN Range(group_names) = RangeNames(parts[1]) /\ invalid = <<>>
                    ELSE group_names = <<>> /\ invalid = parts

\* C3 as stated: every token with a '-' at a position other than 0 is
\* resolved only as a range: the names at positions start..end when the
\* range is valid, otherwise the token is invalid and adds no name.
C3_AsStated == RangeOutcome(HasLaterDash)

\* C3, amended: every token that contains '-' and does not begin with '-' is
\* resolved only as a range: split on the first '-', it adds exactly the
\* catalog names at positions start..end when both halves are integers with
\* 1 <= start <= end <= len(catalog); otherwise the whole token is invalid
\* and adds no name, even when it equals or is part of a catalog name.
C3_RangeTokens == RangeOutcome(IsRangeToken)

C3_Witness ==
    /\ pc = "return"
    /\ \E i \in DOMAIN SelectionParts(sel) :
          LET p == SelectionParts(sel)[i]
          IN  /\ IsRangeToken(p)
              /\ p \in Range(all_groups)
              /\ p \in Range(invalid)

\* the catalog names that contain the token, ignoring case
SubstringMatches(p) == {g \in Range(all_groups) : Contains(Lower(p), Lower(g))}

IsNameToken(p) == ~IsRangeToken(p) /\ ~IsDigit(p)

\* the names a name token must add: the unique substring match, else the
\* token itself when it is a catalog member, else nothing
NameTokenNames(p) ==
    IF Cardinality(SubstringMatches(p)) = 1 THEN SubstringMatches(p)
    ELSE IF p \in Range(all_groups) THEN {p}
    ELSE {}

\* C4: a token that is neither a range token nor all digits adds the one
\* catalog name that contains it (ignoring case) when there is exactly one;
\* with zero or several such names it is added only when it is itself a
\* catalog member, and is otherwise invalid; no other name is ever chosen.
C4_NameTokens ==
    pc = "return" =>
        LET parts == SelectionParts(sel)
        IN  /\ \A i \in DOMAIN parts :
                 IsNameToken(parts[i]) =>
                    /\ NameTokenNames(parts[i]) \subseteq Range(group_names)
                    /\ parts[i] \in Range(invalid) <=> NameTokenNames(parts[i]) = {}
            /\ (Len(parts) = 1 /\ IsNameToken(parts[1])) =>
                    /\ Range(group_names) = NameTokenNames(parts[1])
                    /\ invalid = IF NameTokenNames(parts[1]) = {} THEN parts ELSE <<>>

C4_Witness ==
    /\ pc = "return"
    /\ \E i \in DOMAIN SelectionParts(sel) :
          LET p == SelectionParts(sel)[i]
          IN  /\ IsNameToken(p)
              /\ Cardinality(SubstringMatches(p)) > 1
              /\ p \in Range(group_names)

\* a document with two hosts of one name, two groups of one name and a third group
LargeDoc ==
    RootOnly \o Placed(HostH, 1) \o Placed(HostHSpaced, 1) \o Placed(GroupA, 1)
             \o Placed(GroupASpaced, 1) \o Placed(GroupB, 1) \o Placed(HostK, 1)

TreeSelections == {<<<<"A">>>>, <<<<"B">>, <<"A">>>>}

InitTree ==
    /\ MainIdle
    /\ pc = "call"
    /\ \/ \E n \in 1..MaxItems :
             \E items \in [1..n -> ItemPool], nested \in [1..n -> BOOLEAN] :
                /\ ~nested[1]
                /\ tree = RootOnly \o BuildDoc(items, nested, 1, 0)
       \/ tree = LargeDoc
    /\ tags \in {"ip", "fqdn"}
    /\ group_names \in TreeSelections
    /\ all_groups = <<>>
    /\ sel = <<>>
    /\ invalid = <<>>
    /\ new_tree = <<>>

\* the call  new_tree = process_tree(tree, group_names, tags)
ProcessTree ==
    /\ pc = "call"
    /\ \E hasIndent \in BOOLEAN :
          new_tree' = process_tree(tree, group_names, TAG_SETS[tags], hasIndent)
    /\ pc' = "return"
    /\ UNCHANGED <<tree, tags, all_groups, sel, group_names, invalid>>
    /\ UNCHANGED mainVars

NextTree == ProcessTree

SpecTree == InitTree /\ [][NextTree]_vars

-----------------------------------------------------------------------------
(* Claims about process_tree, stated on the document it returns *)

HostTag == TAG_SETS[tags].host

GroupTag == TAG_SETS[tags].group

\* the stripped Name of element i of document t
NameOf(t, i) == Strip(FindText(t, i, "Name"))

OutHosts == {c \in Children(new_tree, 1) : new_tree[c].tag = HostTag}

OutGroups == {c \in Children(new_tree, 1) : new_tree[c].tag = GroupTag}

\* the host-reference texts of the active list containers of the exported groups
OutReferences ==
    UNION {GroupRefs(new_tree, g, TAG_SETS[tags]) : g \in OutGroups}

\* two elements are equal, the indentation of elements with children aside
SameElement(a, b) ==
    /\ Len(a) = Len(b)
    /\ \A k \in DOMAIN a :
          /\ a[k].tag = b[k].tag
          /\ a[k].depth = b[k].depth
          /\ \/ a[k].text = b[k].text
             \/ /\ Children(a, k) # {}
                /\ Strip(a[k].text) = <<>>
                /\ Strip(b[k].text) = <<>>

\* output element c is a copy of source element i
IsCopyOf(c, i) == SameElement(DeepCopy(new_tree, c), DeepCopy(tree, i))

HostsAreReferenced == \A c \in OutHosts : NameOf(new_tree, c) \in OutReferences

\* C1 as stated: every host child of the output root is named by a host
\* reference of an exported group, and every group element anywhere in the
\* output has a Name in the selection.
C1_AsStated ==
    pc = "return" =>
        /\ HostsAreReferenced
        /\ \A k \in 2..Len(new_tree) :
              new_tree[k].tag = GroupTag => NameOf(new_tree, k) \in Range(group_names)

\* C1, amended: every host child of the output root is named by a host
\* reference of an exported group, and every group element that is a child
\* of the output root has a Name in the selection.
C1_ReferentialIntegrity ==
    pc = "return" =>
        /\ HostsAreReferenced
        /\ \A c \in OutGroups : NameOf(new_tree, c) \in Range(group_names)

C1_Witness ==
    /\ pc = "return"
    /\ OutHosts # {}
    /\ \E k \in 2..Len(new_tree) :
          new_tree[k].tag = GroupTag /\ NameOf(new_tree, k) \notin Range(group_names)

\* the source host elements with a Name child and the stripped name n
SourceHosts(n) ==
    {i \in 1..Len(tree) :
        tree[i].tag = HostTag /\ Find(tree, i, "Name") # 0 /\ NameOf(tree, i) = n}

\* the host elements named n among the elements es of the output
NamedHosts(es, n) ==
    {k \in es :
        new_tree[k].tag = HostTag /\ Find(new_tree, k, "Name") # 0
            /\ NameOf(new_tree, k) = n}

\* for every referenced name with a source host, exactly one host of that
\* name among the output elements es, a copy of the first such source host
OneCopyOfFirst(es) ==
    \A n \in OutReferences :
        SourceHosts(n) # {} =>
            /\ Cardinality(NamedHosts(es, n)) = 1
            /\ \A c \in NamedHosts(es, n) : IsCopyOf(c, SetMin(SourceHosts(n)))

\* C2 as stated: the output contains, at any depth, exactly one host of
\* each referenced name that the source has, a copy of the first one.
C2_AsStated == pc = "return" => OneCopyOfFirst(2..Len(new_tree))

\* C2, amended: among the children of the output root there is exactly one
\* host of each referenced name that the source has, and it is a copy of the
\* first source host of that name in document order.
C2_Deduplication == pc = "return" => OneCopyOfFirst(Children(new_tree, 1))

C2_Witness ==
    /\ pc = "return"
    /\ \E n \in OutReferences :
          /\ Cardinality(SourceHosts(n)) > 1
          /\ Cardinality({g \in OutGroups : n \in GroupRefs(new_tree, g, TAG_SETS[tags])}) > 1
          /\ Cardinality(NamedHosts(Children(new_tree, 1), n)) = 1

\* the source group elements whose stripped Name is selected, in document order
SelectedSourceGroups ==
    Ascending({i \in 2..Len(tree) :
                  tree[i].tag = GroupTag /\ NameOf(tree, i) \in Range(group_names)})

\* C9: the children of the output root are hosts first and groups after
\* them; the groups are the copies of the selected source group elements,
\* one each, in document order.
C9_OutputOrder ==
    pc = "return" =>
        /\ \A c \in Children(new_tree, 1) : new_tree[c].tag \in {HostTag, GroupTag}
        /\ \A c, d \in Children(new_tree, 1) :
              (new_tree[c].tag = GroupTag /\ new_tree[d].tag = HostTag) => d < c
        /\ Len(Ascending(OutGroups)) = Len(SelectedSourceGroups)
        /\ \A j \in DOMAIN SelectedSourceGroups :
              IsCopyOf(Ascending(OutGroups)[j], SelectedSourceGroups[j])

C9_Witness ==
    /\ pc = "return"
    /\ OutHosts # {}
    /\ Len(group_names) = 2
    /\ \E c, d \in OutGroups :
          /\ c < d
          /\ NameOf(new_tree, c) = group_names[2]
          /\ NameOf(new_tree, d) = group_names[1]
    /\ \E c, d \in OutGroups : c # d /\ NameOf(new_tree, c) = NameOf(new_tree, d)

-----------------------------------------------------------------------------
(* The main sequence.  Each step is one statement group of the script; the *)
(* operator's interrupt can arrive between any two of them.                *)

\* sys.exit(<message>): the message goes to stderr and the status is 1
MessageExitStatus == 1

\* sys.exit(1) of the KeyboardInterrupt handler
InterruptExitStatus == 1

\* sys.exit(0) after a declined overwrite
DeclineExitStatus == 0

\* the script ends without sys.exit
EndOfScriptStatus == 0

Affirmative == {<<"j">>, <<"j", "a">>, <<"y">>, <<"y", "e", "s">>}

\* Declines accepting only an explicit n as a refusal
DeclinesOnlyOnNo(a) == Lower(a) = <<"n">>

\* the answer test of the overwrite prompt
Declines(a) == Lower(a) \notin Affirmative

\* str.replace(" ", "_")
ReplaceSpaces(s) == [i \in DOMAIN s |-> IF s[i] = " " THEN "_" ELSE s[i]]

\* input(...).strip().replace(" ", "_")
SanitizeExportName(raw) == ReplaceSpaces(Strip(raw))

\* SelectionFailure tolerating invalid tokens beside valid ones
SelectionFailureLenient(r) ==
    IF r.requested = {} THEN (IF r.invalid # <<>> THEN "invalid_selection" ELSE "empty_selection")
    ELSE ""

\* the two tests after parse_group_selection; "" when the run goes on
SelectionFailure(r) ==
    IF r.invalid # <<>> THEN "invalid_selection"
    ELSE IF r.requested = {} THEN "empty_selection"
    ELSE ""

Continue(next) ==
    /\ pc' = next
    /\ UNCHANGED <<exitStatus, cause, logged>>

\* sys.exit(message) of an anticipated fatal condition
FatalExit(kind) ==
    /\ pc' = "exited"
    /\ exitStatus' = <<MessageExitStatus>>
    /\ cause' = kind
    /\ logged' = FALSE

\* except Exception: logger.error(...), and the script ends
UnexpectedError ==
    /\ pc' = "exited"
    /\ exitStatus' = <<EndOfScriptStatus>>
    /\ cause' = "unexpected"
    /\ logged' = TRUE

Step(name) == steps' = Append(steps, name)

MainDocs ==
    { RootOnly \o Placed(HostH, 1) \o Placed(GroupA, 1) \o Placed(GroupB, 1),
      RootOnly \o Placed(GroupASpaced, 1) \o Placed(GroupB, 2) \o Placed(HostK, 1),
      RootOnly \o Placed(HostH, 1),
      RootOnly \o Placed(GroupBlank, 1) \o Placed(HostH, 1),
      RootOnly \o Placed(FqdnGroupA, 1) \o Placed(FqdnHostH, 1),
      RootOnly \o Placed(FqdnGroupA, 1) \o Placed(GroupB, 1) \o Placed(HostHSpaced, 1)
                \o Placed(HostH, 1) }

TypedChars == {"1", "2", "-", ",", "a", "B"}

TypedNames == {<<>>, <<" ">>, <<"a">>, <<" ", "a", " ", "b">>}

TypedAnswers == {<<"y">>, <<"Y">>, <<"J", "A">>, <<"y", "e", "s">>, <<"n">>, <<>>, <<" ", "y">>}

Init ==
    /\ pc = "find_source_tar"
    /\ tree = <<>>
    /\ tags = "none"
    /\ all_groups = <<>>
    /\ sel = <<>>
    /\ group_names = <<>>
    /\ invalid = <<>>
    /\ new_tree = <<>>
    /\ archive = "unread"
    /\ export_name = <<>>
    /\ outFile \in {"absent", "old"}
    /\ existed = "unknown"
    /\ answer = <<"?">>
    /\ exitStatus = <<>>
    /\ cause = ""
    /\ logged = FALSE
    /\ steps = <<>>

\* tar_path = find_source_tar()
FindSourceTar ==
    /\ pc = "find_source_tar"
    /\ Step("find_source_tar")
    /\ \E found \in BOOLEAN :
          IF found
          THEN archive' = "found" /\ Continue("load_xml_from_tar")
          ELSE archive' = "none" /\ FatalExit("no_archive")
    /\ UNCHANGED <<tree, tags, all_groups, sel, group_names, invalid, new_tree,
                   export_name, outFile, existed, answer>>

\* tree, xml_member_name = load_xml_from_tar(tar_path)
LoadXmlFromTar ==
    /\ pc = "load_xml_from_tar"
    /\ Step("load_xml_from_tar")
    /\ \/ \E doc \in MainDocs :
             /\ archive' = "ok"
             /\ tree' = doc
             /\ Continue("detect_object_type")
       \/ archive' = "no_xml" /\ FatalExit("no_xml") /\ UNCHANGED tree
       \/ archive' = "tar_error" /\ FatalExit("archive_error") /\ UNCHANGED tree
       \/ archive' = "parse_error" /\ UnexpectedError /\ UNCHANGED tree
    /\ UNCHANGED <<tags, all_groups, sel, group_names, invalid, new_tree,
                   export_name, outFile, existed, answer>>

\* obj_type = detect_object_type(tree); tags = TAG_SETS[obj_type]
DetectObjectType ==
    /\ pc = "detect_object_type"
    /\ Step("detect_object_type")
    /\ tags' = detect_object_type(tree)
    /\ IF detect_object_type(tree) = "none"
       THEN FatalExit("unknown_schema")
       ELSE Continue("list_groups")
    /\ UNCHANGED <<tree, all_groups, sel, group_names, invalid, new_tree,
                   archive, export_name, outFile, existed, answer>>

\* all_groups = list_groups(tree, tags), and the test for an empty catalog
ListGroups ==
    /\ pc = "list_groups"
    /\ Step("list_groups")
    /\ all_groups' = list_groups(tree, TAG_SETS[tags])
    /\ IF list_groups(tree, TAG_SETS[tags]) = <<>>
       THEN FatalExit("empty_catalog")
       ELSE Continue("input_selection")
    /\ UNCHANGED <<tree, tags, sel, group_names, invalid, new_tree,
                   archive, export_name, outFile, existed, answer>>

\* sel = input(...); parse_group_selection; the two tests on its result
InputSelection ==
    /\ pc = "input_selection"
    /\ Step("input_selection")
    /\ \E typed \in StringsUpTo(TypedChars, MaxTypedLen) :
          LET r == parse_group_selection(typed, all_groups)
          IN  /\ sel' = typed
              /\ group_names' \in ListsOf(r.requested)
              /\ invalid' = r.invalid
              /\ IF SelectionFailure(r) # ""
                 THEN FatalExit(SelectionFailure(r))
                 ELSE Continue("input_export_name")
    /\ UNCHANGED <<tree, tags, all_groups, new_tree,
                   archive, export_name, outFile, existed, answer>>

\* export_name = input(...); the test for an empty name; output_path.exists()
InputExportName ==
    /\ pc = "input_export_name"
    /\ Step("input_export_name")
    /\ \E raw \in TypedNames :
          /\ export_name' = SanitizeExportName(raw)
          /\ IF SanitizeExportName(raw) = <<>>
             THEN FatalExit("empty_export_name") /\ UNCHANGED existed
             ELSE IF outFile = "absent"
                  THEN existed' = "no" /\ Continue("process_tree")
                  ELSE existed' = "yes" /\ Continue("input_overwrite")
    /\ UNCHANGED <<tree, tags, all_groups, sel, group_names, invalid, new_tree,
                   archive, outFile, answer>>

\* overwrite = input(...); sys.exit(0) unless the answer is affirmative
InputOverwrite ==
    /\ pc = "input_overwrite"
    /\ Step("input_overwrite")
    /\ \E a \in TypedAnswers :
          /\ answer' = a
          /\ IF Declines(a)
             THEN /\ pc' = "exited"
                  /\ exitStatus' = <<DeclineExitStatus>>
                  /\ cause' = "declined"
                  /\ logged' = FALSE
             ELSE Continue("process_tree")
    /\ UNCHANGED <<tree, tags, all_groups, sel, group_names, invalid, new_tree,
                   archive, export_name, outFile, existed>>

\* input() raises EOFError: the prompt's input stream is at its end
InputFails ==
    /\ pc \in {"input_selection", "input_export_name", "input_overwrite"}
    /\ Step("input_eof")
    /\ UnexpectedError
    /\ UNCHANGED <<tree, tags, all_groups, sel, group_names, invalid, new_tree,
                   archive, export_name, outFile, existed, answer>>

\* new_tree = process_tree(tree, group_names, tags)
RunProcessTree ==
    /\ pc = "process_tree"
    /\ Step("process_tree")
    /\ \E hasIndent \in BOOLEAN :
          new_tree' = process_tree(tree, group_names, TAG_SETS[tags], hasIndent)
    /\ Continue("tarfile_open")
    /\ UNCHANGED <<tree, tags, all_groups, sel, group_names, invalid,
                   archive, export_name, outFile, existed, answer>>

\* tarfile.open(output_tar, 'w'): the file is created or truncated
TarfileOpen ==
    /\ pc = "tarfile_open"
    /\ Step("tarfile_open")
    /\ \/ outFile' = "empty" /\ Continue("addfile")
       \/ UnexpectedError /\ UNCHANGED outFile
    /\ UNCHANGED <<tree, tags, all_groups, sel, group_names, invalid, new_tree,
                   archive, export_name, existed, answer>>

\* tar.addfile(info, ...): the member's header and bytes are written
TarAddfile ==
    /\ pc = "addfile"
    /\ Step("addfile")
    /\ outFile' = "partial"
    /\ \/ Continue("close")
       \/ FatalExit("output_error")
       \/ UnexpectedError
    /\ UNCHANGED <<tree, tags, all_groups, sel, group_names, invalid, new_tree,
                   archive, export_name, existed, answer>>

\* the with block ends: the archive is completed and closed, the success
\* message printed, and the script ends
TarClose ==
    /\ pc = "close"
    /\ Step("close")
    /\ outFile' = "complete"
    /\ pc' = "exited"
    /\ exitStatus' = <<EndOfScriptStatus>>
    /\ cause' = "success"
    /\ logged' = FALSE
    /\ UNCHANGED <<tree, tags, all_groups, sel, group_names, invalid, new_tree,
                   archive, export_name, existed, answer>>

\* KeyboardInterrupt: the message is printed and sys.exit(1) is called; an
\* open output archive is closed as it is, by the with block
Interrupt ==
    /\ pc # "exited"
    /\ pc' = "exited"
    /\ exitStatus' = <<InterruptExitStatus>>
    /\ cause' = "interrupt"
    /\ logged' = FALSE
    /\ UNCHANGED <<tree, tags, all_groups, sel, group_names, invalid, new_tree,
                   archive, export_name, outFile, existed, answer, steps>>

Next ==
    \/ FindSourceTar
    \/ LoadXmlFromTar
    \/ DetectObjectType
    \/ ListGroups
    \/ InputSelection
    \/ InputExportName
    \/ InputOverwrite
    \/ InputFails
    \/ RunProcessTree
    \/ TarfileOpen
    \/ TarAddfile
    \/ TarClose
    \/ Interrupt

Spec == Init /\ [][Next]_vars

-----------------------------------------------------------------------------
(* Claims about the main sequence *)

Ran(name) == \E i \in DOMAIN steps : steps[i] = name

\* the run is over with a non-zero status, name was its last step, and the
\* output archive was never opened
EndedFatallyAt(name) ==
    /\ pc = "exited"
    /\ Len(exitStatus) = 1
    /\ exitStatus[1] # 0
    /\ steps[Len(steps)] = name
    /\ ~Ran("process_tree")
    /\ ~Ran("tarfile_open")
    /\ outFile \in {"absent", "old"}
    /\ ~ENABLED Next

\* C5: each anticipated fatal condition (no input archive, no XML member or
\* archive error, unknown schema, empty catalog, invalid tokens, empty
\* selection, empty export name) ends the run at the step that met it, with
\* a non-zero status, and the output archive is never opened.
C5_FatalConditions ==
    /\ archive = "none" => EndedFatallyAt("find_source_tar")
    /\ archive \in {"no_xml", "tar_error"} => EndedFatallyAt("load_xml_from_tar")
    /\ (Ran("detect_object_type") /\ tags = "none") => EndedFatallyAt("detect_object_type")
    /\ (Ran("list_groups") /\ all_groups = <<>>) => EndedFatallyAt("list_groups")
    /\ (Ran("input_selection") /\ invalid # <<>>) => EndedFatallyAt("input_selection")
    /\ (Ran("input_selection") /\ group_names = <<>>) => EndedFatallyAt("input_selection")
    /\ (Ran("input_export_name") /\ export_name = <<>>) => EndedFatallyAt("input_export_name")

C5_Witness ==
    /\ cause = "invalid_selection"
    /\ group_names # <<>>
    /\ outFile = "old"

\* C6 as stated: an unexpected internal error is logged and ends the run
\* with a non-zero status; the status is 0 only after a successful export or
\* a declined overwrite.
C6_AsStated ==
    /\ cause = "unexpected" => (logged /\ exitStatus # <<>> /\ exitStatus[1] # 0)
    /\ (pc = "exited" /\ exitStatus = <<0>>) => cause \in {"success", "declined"}

\* the answers that affirm the overwrite
SaysYes(a) == Lower(a) \in {<<"j">>, <<"j", "a">>, <<"y">>, <<"y", "e", "s">>}

\* C7: when the output file exists, the operator is asked before anything is
\* written; any answer other than j, ja, y, yes ends the run with status 0,
\* extraction never run and the file as it was; the output archive is opened
\* only when the file was absent or the overwrite affirmed.
C7_OverwriteGuard ==
    /\ (answer # <<"?">> /\ ~SaysYes(answer)) =>
          /\ pc = "exited"
          /\ exitStatus = <<0>>
          /\ ~Ran("process_tree")
          /\ ~Ran("tarfile_open")
          /\ outFile = "old"
    /\ Ran("tarfile_open") => (existed = "no" \/ (answer # <<"?">> /\ SaysYes(answer)))
    /\ (existed = "yes" /\ outFile # "old") => Ran("input_overwrite")
    /\ (existed = "yes" /\ Ran("process_tree")) => Ran("input_overwrite")

C7_Witness ==
    /\ cause = "declined"
    /\ existed = "yes"
    /\ answer = <<" ", "y">>
    /\ outFile = "old"

\* C8 as stated: an interrupt at any point ends the run with a status that
\* differs from the status of success and from the status of the fatal
\* conditions, and leaves no partially written output archive.
C8_AsStated ==
    cause = "interrupt" =>
        /\ exitStatus # <<>>
        /\ exitStatus[1] \notin {EndOfScriptStatus, MessageExitStatus}
        /\ outFile \notin {"empty", "partial"}

\* the stripped Names of the group elements among the elements es of the output
GroupNamesAmong(es) == {NameOf(new_tree, k) : k \in {e \in es : new_tree[e].tag = GroupTag}}

\* C10 as stated: after process_tree ran on the parser's matched list, the
\* Names of the group elements anywhere in the output are the matched set.
C10_AsStated ==
    Ran("process_tree") => GroupNamesAmong(2..Len(new_tree)) = Range(group_names)

\* C10, amended: after process_tree ran on the parser's matched list, the
\* Names of the group elements that are children of the output root are
\* exactly the matched set: no selected name is dropped, none is added.
C10_EndToEnd ==
    Ran("process_tree") => GroupNamesAmong(Children(new_tree, 1)) = Range(group_names)

C10_Witness ==
    /\ Ran("process_tree")
    /\ SelectionParts(sel) = <<<<"1", "-", "2">>>>
    /\ Len(group_names) = 2
    /\ \E c \in Children(new_tree, 1) : new_tree[c].tag = GroupTag /\ NameOf(new_tree, c) = <<"B">>

=============================================================================
